---------------------------- MODULE Spec2Model ----------------------------
(***************************************************************************)
(* A model of src/utils.py of the sims package: format_species (the        *)
(* chemical-species label formatter) and coordinates (the stage-coordinate *)
(* / raster layout of a list of image files).                              *)
(*                                                                         *)
(* Strings are sequences of one-character strings.  Lengths (coordinates,  *)
(* raster sizes, bounds, view limits) are exact fixed-point numbers: an    *)
(* integer n stands for n / Unit, so that the halving of line 169 and the  *)
(* 0.1 factor of line 196 are exact on every value the model draws.        *)
(***************************************************************************)
EXTENDS Integers, Sequences, FiniteSets, TLC

VARIABLES
    \* format_species
    name, mhchem, mathrm,      \* the arguments
    begin, end,                \* the wrapper chosen at lines 55-62
    atoms, idx,                \* name.split() and the loop position in it
    body,                      \* the accumulated body
    result,                    \* the returned string
    fpc,                       \* "idle" | "start" | "loop" | "done"
    \* coordinates
    filelist,                  \* the headers of the files iterated so far
    patches, texts, warnings,  \* rectangles, label texts, warnings emitted
    x_min, x_max, y_min, y_max,\* <<>> = None / not yet bound, <<v>> = v
    xlim, ylim,                \* the view limits given to the axes
    cpc                        \* "idle" | "loop" | "done" | "raised"

fvars == <<name, mhchem, mathrm, begin, end, atoms, idx, body, result, fpc>>
cvars == <<filelist, patches, texts, warnings, x_min, x_max, y_min, y_max,
           xlim, ylim, cpc>>
vars == <<fvars, cvars>>

-----------------------------------------------------------------------------
\* Bounds of the model.

\* Longest name drawn exhaustively from Alphabet.
MaxLen == 3

\* Longest file list.
MaxRecords == 3

\* Fixed-point scale: 2 for raster/2 (line 169) times 10 for 0.1*span (line 196).
Unit == 2 * 10

-----------------------------------------------------------------------------
\* Characters.

\* [a-zA-Z] of the pattern at line 70.
AsciiLetters ==
    {"a","b","c","d","e","f","g","h","i","j","k","l","m",
     "n","o","p","q","r","s","t","u","v","w","x","y","z",
     "A","B","C","D","E","F","G","H","I","J","K","L","M",
     "N","O","P","Q","R","S","T","U","V","W","X","Y","Z"}

\* What str.split() with no argument splits on (the ASCII part).
Whitespace == {" ", "\t", "\n", "\r", "\f"}

\* The characters names are drawn from: two digits, two letters, both charge
\* markers, one character that is neither digit nor letter, one blank.
Alphabet == {"1", "2", "C", "H", "+", "-", ".", " "}

\* The names of the docstring's examples (line 36) and some longer ones.
ExampleNames ==
    { <<"1","2","C","2"," ","2","H">>,
      <<"1","2","C"," ","1","H","2"," ","2","+">>,
      <<"C","1","H"," ","1","2","C">> }

Names == (UNION {[1..n -> Alphabet] : n \in 0..MaxLen}) \cup ExampleNames

RECURSIVE Concat(_)
\* The concatenation of a sequence of strings.
Concat(ss) == IF ss = <<>> THEN <<>> ELSE Head(ss) \o Concat(Tail(ss))

Take(s, n) == SubSeq(s, 1, n)
Drop(s, n) == SubSeq(s, n + 1, Len(s))

-----------------------------------------------------------------------------
\* format_species

RECURSIVE SplitFrom(_, _)
\* name.split(): the maximal runs of non-whitespace characters, in order.
\* cur is the run being read.
SplitFrom(s, cur) ==
    IF s = <<>> THEN (IF cur = <<>> THEN <<>> ELSE <<cur>>)
    ELSE IF Head(s) \in Whitespace
         THEN (IF cur = <<>> THEN <<>> ELSE <<cur>>) \o SplitFrom(Tail(s), <<>>)
         ELSE SplitFrom(Tail(s), Append(cur, Head(s)))

Split(s) == SplitFrom(s, <<>>)

RECURSIVE LetterRun(_)
\* Length of the leading run of letters: what ([a-zA-Z]+) matches at the start.
LetterRun(s) ==
    IF s # <<>> /\ Head(s) \in AsciiLetters THEN 1 + LetterRun(Tail(s)) ELSE 0

RECURSIVE OtherRun(_)
\* Length of the leading run of characters the pattern does not match.
OtherRun(s) ==
    IF s # <<>> /\ Head(s) \notin AsciiLetters THEN 1 + OtherRun(Tail(s)) ELSE 0

RECURSIVE ReSplit(_)
\* re.split('([a-zA-Z]+)', atom): the text between the matches, with each
\* match (the capturing group) kept between them; 2k+1 parts for k letter runs.
ReSplit(s) ==
    LET n == OtherRun(s)
        rest == Drop(s, n)
    IN  IF rest = <<>> THEN <<Take(s, n)>>
        ELSE LET m == LetterRun(rest)
             IN  <<Take(s, n), Take(rest, m)>> \o ReSplit(Drop(rest, m))

\* The templates of lines 50-53, filled in.
MassTmpl(mass) == <<"{", "}", "^", "{">> \o mass \o <<"}">>
ElemTmpl(elem) == elem
StoichTmpl(stoich) == <<"_", "{">> \o stoich \o <<"}">>
ChargeTmpl(charge) == <<"^", "{">> \o charge \o <<"}">>

HasChar(s, c) == \E i \in 1..Len(s) : s[i] = c

AtomFragmentSwapped(atom) ==
    IF HasChar(atom, "+") \/ HasChar(atom, "-")
    THEN ChargeTmpl(atom)
    ELSE LET parts == ReSplit(atom)
         IN  IF Len(parts) # 3 THEN <<>>
             ELSE IF parts[2] = <<>> THEN <<>>
             ELSE (IF parts[3] # <<>> THEN MassTmpl(parts[3]) ELSE <<>>)
                  \o ElemTmpl(parts[2])
                  \o (IF parts[1] # <<>> THEN StoichTmpl(parts[1]) ELSE <<>>)

\* One pass of the loop body, lines 66-89: what the atom adds to body.
AtomFragment(atom) ==
    IF HasChar(atom, "+") \/ HasChar(atom, "-")
    THEN ChargeTmpl(atom)
    ELSE LET parts == ReSplit(atom)
         IN  IF Len(parts) # 3 THEN <<>>
             ELSE IF parts[2] = <<>> THEN <<>>
             ELSE (IF parts[1] # <<>> THEN MassTmpl(parts[1]) ELSE <<>>)
                  \o ElemTmpl(parts[2])
                  \o (IF parts[3] # <<>> THEN StoichTmpl(parts[3]) ELSE <<>>)

CE_BEGIN == <<"\\", "c", "e", "{">>
MATHRM_BEGIN == <<"$", "\\", "m", "a", "t", "h", "r", "m", "{">>

BeginMathrmFirst(mh, mr) ==
    IF mr THEN MATHRM_BEGIN ELSE IF mh THEN CE_BEGIN ELSE <<"$">>

\* Lines 55-62: the opening of the wrapper.
Begin(mh, mr) ==
    IF mh THEN CE_BEGIN ELSE IF mr THEN MATHRM_BEGIN ELSE <<"$">>

\* Lines 55-62: the closing of the wrapper.
End(mh, mr) ==
    IF mh THEN <<"}">> ELSE IF mr THEN <<"}", "$">> ELSE <<"$">>

\* Lines 55-65: the wrapper is chosen, body is '', the name is split.
FmtStart ==
    /\ fpc = "start"
    /\ begin' = Begin(mhchem, mathrm)
    /\ end' = End(mhchem, mathrm)
    /\ body' = <<>>
    /\ atoms' = Split(name)
    /\ idx' = 1
    /\ fpc' = "loop"
    /\ UNCHANGED <<name, mhchem, mathrm, result, cvars>>

\* Lines 65-89: one iteration of the loop over the atoms.
FmtAtom ==
    /\ fpc = "loop"
    /\ idx <= Len(atoms)
    /\ body' = body \o AtomFragment(atoms[idx])
    /\ idx' = idx + 1
    /\ UNCHANGED <<name, mhchem, mathrm, begin, end, atoms, result, fpc, cvars>>

\* Line 91.
FmtReturn ==
    /\ fpc = "loop"
    /\ idx > Len(atoms)
    /\ result' = begin \o body \o end
    /\ fpc' = "done"
    /\ UNCHANGED <<name, mhchem, mathrm, begin, end, atoms, idx, body, cvars>>

-----------------------------------------------------------------------------
\* coordinates

\* Header values the model draws (line 152-153, 159, 161), in fixed point.
SampleValues == {0 - Unit, 0, Unit}
SampleXValues == {0, Unit}
PrimaryBeamRaster == 2 * Unit
ImageRaster == 4000 * Unit

\* The raster metadata a header may hold: a PrimaryBeam raster alone, both
\* rasters, a PrimaryBeam group without raster beside an Image raster, an Image
\* group without raster, or no such group at all.
MetaChoices ==
    { "PrimaryBeam" :> ("raster" :> PrimaryBeamRaster),
      ("PrimaryBeam" :> ("raster" :> PrimaryBeamRaster))
          @@ ("Image" :> ("raster" :> ImageRaster)),
      ("PrimaryBeam" :> ("E0" :> Unit))
          @@ ("Image" :> ("raster" :> ImageRaster)),
      "Image" :> ("size" :> Unit) }

\* s.header after read_header (lines 146-149): a dictionary.
Headers ==
    { ("sample x" :> sx) @@ ("sample y" :> sy) @@ meta :
        sx \in SampleXValues, sy \in SampleValues, meta \in MetaChoices }
    \cup
    { ("sample x" :> sx) @@ ("sample y" :> sy) :
        sx \in SampleXValues, sy \in SampleValues }

DisplayXYUnswapped(h) == <<h["sample x"], h["sample y"]>>

\* Lines 152-153: x is 'sample y', y is 'sample x'.
DisplayXY(h) == <<h["sample y"], h["sample x"]>>

\* The conditions of lines 158 and 160.
HasPrimaryBeamRaster(h) ==
    "PrimaryBeam" \in DOMAIN h /\ "raster" \in DOMAIN h["PrimaryBeam"]
HasImageRaster(h) ==
    "Image" \in DOMAIN h /\ "raster" \in DOMAIN h["Image"]

RasterImageFirst(h) ==
    IF HasImageRaster(h) THEN h["Image"]["raster"] \div 1000
    ELSE IF HasPrimaryBeamRaster(h) THEN h["PrimaryBeam"]["raster"]
    ELSE 0

\* Lines 158-164: the raster size.
Raster(h) ==
    IF HasPrimaryBeamRaster(h) THEN h["PrimaryBeam"]["raster"]
    ELSE IF HasImageRaster(h) THEN h["Image"]["raster"] \div 1000
    ELSE 0

\* Line 163: the warning of the last branch.
WarnsNoRaster(h) == ~HasPrimaryBeamRaster(h) /\ ~HasImageRaster(h)

\* Line 155.
WarnsZero(x, y) == x = 0 /\ y = 0

\* raster/2 of lines 169-170 (true division; exact in fixed point).
Half(r) == r \div 2

\* 0.1*span of lines 196-197 (exact in fixed point).
Tenth(s) == s \div 10

\* 'not x_min' of line 173: None and 0 are both falsy.
Falsy(v) == v = <<>> \/ v[1] = 0

FoldSeedNegated(b, x, y, raster) ==
    IF Falsy(b.x_min)
    THEN [x_min |-> <<x>>, x_max |-> <<x - raster>>,
          y_min |-> <<y>>, y_max |-> <<y - raster>>]
    ELSE [x_min |-> IF x < b.x_min[1] THEN <<x>> ELSE b.x_min,
          x_max |-> IF x + raster > b.x_max[1] THEN <<x + raster>> ELSE b.x_max,
          y_min |-> IF y < b.y_min[1] THEN <<y>> ELSE b.y_min,
          y_max |-> IF y + raster > b.y_max[1] THEN <<y + raster>> ELSE b.y_max]

\* Lines 173-183: the bounds after the rectangle anchored at (x, y).
Fold(b, x, y, raster) ==
    IF Falsy(b.x_min)
    THEN [x_min |-> <<x>>, x_max |-> <<x + raster>>,
          y_min |-> <<y>>, y_max |-> <<y + raster>>]
    ELSE [x_min |-> IF x < b.x_min[1] THEN <<x>> ELSE b.x_min,
          x_max |-> IF x + raster > b.x_max[1] THEN <<x + raster>> ELSE b.x_max,
          y_min |-> IF y < b.y_min[1] THEN <<y>> ELSE b.y_min,
          y_max |-> IF y + raster > b.y_max[1] THEN <<y + raster>> ELSE b.y_max]

\* Lines 169-170 and 185: the rectangle of a file.
RectangleOf(x, y, raster) ==
    [x |-> x - Half(raster), y |-> y - Half(raster),
     width |-> raster, height |-> raster]

ViewLimitsUnswapped(xmin, xmax, ymin, ymax) ==
    [xlim |-> <<xmin - Tenth(xmax - xmin), xmax + Tenth(xmax - xmin)>>,
     ylim |-> <<ymin - Tenth(ymax - ymin), ymax + Tenth(ymax - ymin)>>]

\* Lines 192-197: the arguments of set_xlim and set_ylim.
ViewLimits(xmin, xmax, ymin, ymax) ==
    [xlim |-> <<xmin - Tenth(xmax - xmin), xmax + Tenth(xmax - xmin)>>,
     ylim |-> <<ymax + Tenth(ymax - ymin), ymin - Tenth(ymax - ymin)>>]

Bounds == [x_min |-> x_min, x_max |-> x_max, y_min |-> y_min, y_max |-> y_max]

\* Lines 152-183 for one header: the bounds b after its rectangle.
BoundsAfter(b, h) ==
    LET rect == RectangleOf(DisplayXY(h)[1], DisplayXY(h)[2], Raster(h))
    IN  Fold(b, rect.x, rect.y, Raster(h))

\* Lines 145-186: one iteration of the loop, over the next file of the list.
\* The label of the i-th file is labels[i], written i.
CoordFile ==
    /\ cpc = "loop"
    /\ Len(filelist) < MaxRecords
    /\ \E h \in Headers :
         LET i == Len(filelist) + 1
             x == DisplayXY(h)[1]
             y == DisplayXY(h)[2]
             b == BoundsAfter(Bounds, h)
         IN  /\ filelist' = Append(filelist, h)
             /\ warnings' = warnings
                  \o (IF WarnsZero(x, y)
                      THEN <<[kind |-> "zero", file |-> i]>> ELSE <<>>)
                  \o (IF WarnsNoRaster(h)
                      THEN <<[kind |-> "noraster", file |-> i]>> ELSE <<>>)
             /\ texts' = Append(texts, [x |-> x, y |-> y, label |-> i])
             /\ patches' = Append(patches, RectangleOf(x, y, Raster(h)))
             /\ x_min' = b.x_min
             /\ x_max' = b.x_max
             /\ y_min' = b.y_min
             /\ y_max' = b.y_max
    /\ UNCHANGED <<xlim, ylim, cpc, fvars>>

\* Lines 188-203 after the last file.  x_max, y_min and y_max are bound only
\* by the loop body: with an empty list line 192 raises UnboundLocalError.
CoordFinish ==
    /\ cpc = "loop"
    /\ IF x_max = <<>>
       THEN /\ cpc' = "raised"
            /\ UNCHANGED <<xlim, ylim>>
       ELSE LET v == ViewLimits(x_min[1], x_max[1], y_min[1], y_max[1])
            IN  /\ xlim' = v.xlim
                /\ ylim' = v.ylim
                /\ cpc' = "done"
    /\ UNCHANGED <<filelist, patches, texts, warnings,
                   x_min, x_max, y_min, y_max, fvars>>

-----------------------------------------------------------------------------
\* Specifications.

FmtIdle ==
    /\ name = <<>> /\ mhchem = FALSE /\ mathrm = FALSE
    /\ begin = <<>> /\ end = <<>> /\ atoms = <<>> /\ idx = 0
    /\ body = <<>> /\ result = <<>> /\ fpc = "idle"

CoordIdle ==
    /\ filelist = <<>> /\ patches = <<>> /\ texts = <<>> /\ warnings = <<>>
    /\ x_min = <<>> /\ x_max = <<>> /\ y_min = <<>> /\ y_max = <<>>
    /\ xlim = <<>> /\ ylim = <<>> /\ cpc = "idle"

\* A call format_species(name, mhchem, mathrm).
FmtInit ==
    /\ name \in Names /\ mhchem \in BOOLEAN /\ mathrm \in BOOLEAN
    /\ begin = <<>> /\ end = <<>> /\ atoms = <<>> /\ idx = 0
    /\ body = <<>> /\ result = <<>> /\ fpc = "start"
    /\ CoordIdle

\* A call coordinates(filelist), at line 141-143.
CoordInit ==
    /\ filelist = <<>> /\ patches = <<>> /\ texts = <<>> /\ warnings = <<>>
    /\ x_min = <<>> /\ x_max = <<>> /\ y_min = <<>> /\ y_max = <<>>
    /\ xlim = <<>> /\ ylim = <<>> /\ cpc = "loop"
    /\ FmtIdle

FmtNext == FmtStart \/ FmtAtom \/ FmtReturn
CoordNext == CoordFile \/ CoordFinish

SpecFormat == FmtInit /\ [][FmtNext]_vars
SpecCoord == CoordInit /\ [][CoordNext]_vars

-----------------------------------------------------------------------------
\* Properties of coordinates.

SetMin(S) == CHOOSE m \in S : \A k \in S : m <= k
SetMax(S) == CHOOSE m \in S : \A k \in S : m >= k

Files == 1..Len(filelist)
Folded == cpc \in {"loop", "done"} /\ Len(filelist) >= 1

\* Of the i-th file: the header's 'sample y', 'sample x' and the raster.
A(i) == filelist[i]["sample y"]
B(i) == filelist[i]["sample x"]
R(i) == Raster(filelist[i])

\* C1: after any non-empty sequence of records is folded, the bounding region
\* is the exact envelope of the rectangles folded so far: x_min is the least
\* anchor x (a - r/2), x_max the greatest anchor x + r, and likewise in y,
\* also when an anchor x is exactly 0.  (Stated on doubled values.)
C1_ExactEnvelope ==
    Folded =>
        /\ 2 * x_min[1] = SetMin({2 * A(i) - R(i) : i \in Files})
        /\ 2 * x_max[1] = SetMax({2 * A(i) + R(i) : i \in Files})
        /\ 2 * y_min[1] = SetMin({2 * B(i) - R(i) : i \in Files})
        /\ 2 * y_max[1] = SetMax({2 * B(i) + R(i) : i \in Files})

RECURSIVE FoldAll(_, _)
\* The bounds after the headers of s are folded into b, in order.
FoldAll(b, s) ==
    IF s = <<>> THEN b ELSE FoldAll(BoundsAfter(b, Head(s)), Tail(s))

NoBounds == [x_min |-> <<>>, x_max |-> <<>>, y_min |-> <<>>, y_max |-> <<>>]

\* The orderings of a sequence.
Perms(s) ==
    { [i \in 1..Len(s) |-> s[p[i]]] :
        p \in { q \in [1..Len(s) -> 1..Len(s)] :
                  \A i, j \in 1..Len(s) : q[i] = q[j] => i = j } }

\* C2: for a non-empty sequence of records, every permutation of it ends with
\* the same bounding region, and so the same view limits, as the order taken.
C2_OrderIndependent ==
    (cpc = "done" /\ Len(filelist) >= 1) =>
        \A s \in Perms(filelist) :
            LET b == FoldAll(NoBounds, s)
            IN  /\ b = Bounds
                /\ ViewLimits(b.x_min[1], b.x_max[1], b.y_min[1], b.y_max[1])
                     = [xlim |-> xlim, ylim |-> ylim]

HasWarning(kind, i) ==
    \E k \in 1..Len(warnings) : warnings[k] = [kind |-> kind, file |-> i]

\* C6: the raster of every record is resolved by the ordered fallback: a
\* PrimaryBeam raster as it is (also beside an Image raster); otherwise an
\* Image raster divided by 1000; otherwise a warning, raster 0 and a zero-size
\* rectangle at the stage coordinate.
C6_RasterFallback ==
    (cpc \in {"loop", "done"}) =>
        \A i \in Files :
            LET h == filelist[i]
                pb == "PrimaryBeam" \in DOMAIN h /\ "raster" \in DOMAIN h["PrimaryBeam"]
                im == "Image" \in DOMAIN h /\ "raster" \in DOMAIN h["Image"]
            IN  /\ i <= Len(patches)
                /\ pb => /\ patches[i].width = h["PrimaryBeam"]["raster"]
                         /\ ~HasWarning("noraster", i)
                /\ (~pb /\ im) =>
                         /\ 1000 * patches[i].width = h["Image"]["raster"]
                         /\ ~HasWarning("noraster", i)
                /\ (~pb /\ ~im) =>
                         /\ HasWarning("noraster", i)
                         /\ patches[i] = [x |-> A(i), y |-> B(i),
                                          width |-> 0, height |-> 0]

C6_Witness ==
    /\ cpc = "done" /\ Len(filelist) = 3
    /\ "Image" \in DOMAIN filelist[1] /\ "PrimaryBeam" \in DOMAIN filelist[1]
    /\ patches[1].width = PrimaryBeamRaster
    /\ 1000 * patches[2].width = ImageRaster
    /\ patches[3].width = 0 /\ HasWarning("noraster", 3)
    /\ "Image" \in DOMAIN filelist[3]

\* C7: coordinates completes without raising for every sequence of records,
\* the empty one included; a record at (0,0) and a record without raster
\* metadata each only emit a warning and are processed like any other; a single
\* record at (0,0) gives the bounding region of its own rectangle.
C7_NeverRaises ==
    /\ cpc # "raised"
    /\ (cpc \in {"loop", "done"}) =>
          /\ Len(patches) = Len(filelist)
          /\ \A i \in Files :
                /\ (A(i) = 0 /\ B(i) = 0) <=> HasWarning("zero", i)
                /\ WarnsNoRaster(filelist[i]) <=> HasWarning("noraster", i)
    /\ (Folded /\ Len(filelist) = 1 /\ A(1) = 0 /\ B(1) = 0) =>
          /\ x_min[1] = patches[1].x /\ x_max[1] = patches[1].x + patches[1].width
          /\ y_min[1] = patches[1].y /\ y_max[1] = patches[1].y + patches[1].height

\* C8: one rectangle per record, in input order: the square of side r with
\* lower-left corner (a - r/2, b - r/2), a = 'sample y', b = 'sample x'; the
\* label is at the centre (a, b).
C8_RectanglePerRecord ==
    (cpc \in {"loop", "done"}) =>
        /\ Len(patches) = Len(filelist)
        /\ Len(texts) = Len(filelist)
        /\ \A i \in Files :
              /\ 2 * patches[i].x = 2 * A(i) - R(i)
              /\ 2 * patches[i].y = 2 * B(i) - R(i)
              /\ patches[i].width = R(i) /\ patches[i].height = R(i)
              /\ texts[i] = [x |-> A(i), y |-> B(i), label |-> i]

C8_Witness ==
    /\ cpc = "done" /\ Len(patches) = 3
    /\ A(1) # B(1) /\ R(1) > 0
    /\ A(2) # B(2) /\ R(2) > R(1)
    /\ texts[2].x # patches[2].x
    /\ filelist[3] # filelist[1]

\* C9: the view limits are the final bounding region padded by a tenth of its
\* span on each side: x limits low to high, y limits high to low.
\* (Stated on tenfold values.)
C9_ViewLimits ==
    (cpc = "done") =>
        /\ 10 * xlim[1] = 10 * x_min[1] - (x_max[1] - x_min[1])
        /\ 10 * xlim[2] = 10 * x_max[1] + (x_max[1] - x_min[1])
        /\ 10 * ylim[1] = 10 * y_max[1] + (y_max[1] - y_min[1])
        /\ 10 * ylim[2] = 10 * y_min[1] - (y_max[1] - y_min[1])

C9_Witness ==
    /\ cpc = "done" /\ Len(filelist) = 2
    /\ x_min[1] < x_max[1] /\ y_min[1] < y_max[1]
    /\ xlim[1] < x_min[1] /\ ylim[1] > y_max[1] /\ ylim[2] < y_min[1]

\* C10: after each record is folded, x_min <= x_max and y_min <= y_max.
C10_BoundsOrdered ==
    Folded => (x_min[1] <= x_max[1] /\ y_min[1] <= y_max[1])

C10_Witness ==
    /\ cpc = "loop" /\ Len(filelist) = 3
    /\ x_min[1] < patches[3].x /\ x_max[1] > patches[3].x + patches[3].width
    /\ y_min[1] < y_max[1]

-----------------------------------------------------------------------------
\* Properties of format_species.

DigitChars == {"0", "1", "2", "3", "4", "5", "6", "7", "8", "9"}

RECURSIVE DigitRun(_)
\* Length of the leading run of digits.
DigitRun(s) ==
    IF s # <<>> /\ Head(s) \in DigitChars THEN 1 + DigitRun(Tail(s)) ELSE 0

\* The three segments of an atom read as digits, letters, digits, and what is
\* left over after them.
MassOf(a) == Take(a, DigitRun(a))
ElementOf(a) ==
    LET r == Drop(a, DigitRun(a)) IN Take(r, LetterRun(r))
StoichOf(a) ==
    LET r == Drop(a, DigitRun(a))
        t == Drop(r, LetterRun(r))
    IN  Take(t, DigitRun(t))

IsCharge(a) == HasChar(a, "+") \/ HasChar(a, "-")

\* Exactly: a run of digits, a non-empty run of letters, a run of digits.
WellFormed(a) ==
    /\ ElementOf(a) # <<>>
    /\ a = MassOf(a) \o ElementOf(a) \o StoichOf(a)

AtomsOf(n) == Split(n)

\* C3: format_species returns for every name; an atom that has no '+' or '-'
\* and is not digits, letters, digits adds nothing to the body, the other
\* atoms are still rendered, and with every atom dropped the result is the
\* wrapper around an empty body.
C3_IrregularDropped ==
    (fpc = "done") =>
        LET as == AtomsOf(name)
            kept(a) == IsCharge(a) \/ WellFormed(a)
        IN  /\ body = Concat([i \in 1..Len(as) |->
                        IF kept(as[i]) THEN AtomFragment(as[i]) ELSE <<>>])
            /\ (\A i \in 1..Len(as) : ~kept(as[i])) =>
                  result = Begin(mhchem, mathrm) \o End(mhchem, mathrm)

\* The fragment of an atom: '^{atom}' for a charge atom; for digits M, letters
\* E, digits S: '{}^{M}' if M is not empty, E, '_{S}' if S is not empty.  Of
\* any other atom, what the loop appends.
Fragment(a) ==
    IF IsCharge(a) THEN <<"^", "{">> \o a \o <<"}">>
    ELSE IF WellFormed(a)
    THEN (IF MassOf(a) # <<>>
          THEN <<"{", "}", "^", "{">> \o MassOf(a) \o <<"}">> ELSE <<>>)
         \o ElementOf(a)
         \o (IF StoichOf(a) # <<>>
             THEN <<"_", "{">> \o StoichOf(a) \o <<"}">> ELSE <<>>)
    ELSE AtomFragment(a)

EXAMPLE_NAME == <<"1","2","C","2"," ","2","H">>
EXAMPLE_BODY ==
    <<"{","}","^","{","1","2","}","C","_","{","2","}",
      "{","}","^","{","2","}","H">>

\* C4: the body is the concatenation, in input order and without separator,
\* of one fragment per atom; '12C2 2H' has body '{}^{12}C_{2}{}^{2}H'.
C4_BodyOfFragments ==
    (fpc = "done") =>
        /\ body = Concat([i \in 1..Len(AtomsOf(name)) |->
                            Fragment(AtomsOf(name)[i])])
        /\ name = EXAMPLE_NAME => body = EXAMPLE_BODY

C4_Witness ==
    /\ fpc = "done"
    /\ name = <<"1","2","C"," ","1","H","2"," ","2","+">>
    /\ body = <<"{","}","^","{","1","2","}","C",
                "{","}","^","{","1","}","H","_","{","2","}",
                "^","{","2","+","}">>

\* The body of a name: no style enters it.
BodyOf(n) == Concat([i \in 1..Len(AtomsOf(n)) |-> AtomFragment(AtomsOf(n)[i])])

\* C5: the body is the same for every style; the style only chooses the
\* wrapper: \ce{...} with mhchem (whatever mathrm is), otherwise $\mathrm{...}$
\* with mathrm, otherwise $...$.
C5_StyleOnlyWraps ==
    (fpc = "done") =>
        /\ body = BodyOf(name)
        /\ mhchem => result = <<"\\","c","e","{">> \o body \o <<"}">>
        /\ (~mhchem /\ mathrm) =>
              result = <<"$","\\","m","a","t","h","r","m","{">> \o body \o <<"}","$">>
        /\ (~mhchem /\ ~mathrm) => result = <<"$">> \o body \o <<"$">>

C5_Witness ==
    /\ fpc = "done" /\ mhchem /\ mathrm
    /\ name = EXAMPLE_NAME
    /\ result = <<"\\","c","e","{">> \o EXAMPLE_BODY \o <<"}">>

=============================================================================
